---------------------------- MODULE Spec2Model ----------------------------
(***************************************************************************)
(* Three-button Morse keyer (src/src/main.cpp): debounced buttons, the     *)
(* symbol buffer with its codec, the Confirm multi-tap classifier and the  *)
(* looping playback sequencer, as executed by the polling loop().          *)
(*                                                                         *)
(* Strings are sequences of one-character strings.                         *)
(*                                                                         *)
(* Time.  The program reads millis() once per loop() and only ever uses a  *)
(* stored time stamp x in a difference now - x that is compared with fixed *)
(* thresholds.  The state therefore keeps every time stamp in the frame of *)
(* the current tick: the tick's reading of millis() is always the number   *)
(* Epoch, and before a tick runs all stored stamps slide back by the time  *)
(* that has passed (Slide).  A stamp stops sliding at its horizon, the age *)
(* beyond which no comparison the program makes with it can tell two ages  *)
(* apart; a stamp that the program overwrites before it next reads it has  *)
(* horizon 0.  In the same way the fields of the sequencer, which the      *)
(* program rewrites at every start of a playback, are taken back to their  *)
(* boot values at the first tick after a playback has ended (Rest).  The   *)
(* loop code itself is written with now and the stamps exactly as in the   *)
(* source, and every state is the result of loop() on such a frame.  (The  *)
(* wrap of millis() after 2^32 ms is not modelled.)                        *)
(*                                                                         *)
(* lastCommittedPattern and Btn's pin and prevStable, which the program    *)
(* writes and never reads, are left out.                                   *)
(***************************************************************************)
EXTENDS Integers, Sequences, FiniteSets, TLC

\* ------------------------------------------------------------------ bounds
\* Period of one loop() iteration (delay(5) plus the display refresh), in ms.
TickMs == 150
\* Longest in-progress pattern and longest text log the inputs may build.
MaxSymbols == 2
MaxText == 1
\* Resolution of time in the study of one button's debounce, in ms.
GrainMs == 5
MaxMsgLen == 4
CapRoom == 2
MaxOver == 2
MaxCodeLen == 6

\* ------------------------------------------------------- program constants
UNIT_MS == 120
LETTER_GAP_MS == 3 * 120
WORD_GAP_MS == 7 * 120
DEBOUNCE_MS == 25
CLEAR_HOLD_MS == 2000
OK_MULTI_WINDOW_MS == 600
PLAY_DOT_MS == 1 * 120
PLAY_DASH_MS == 3 * 120
PLAY_INTER_GAP_MS == 1 * 120
PLAY_LOOP_GAP_MS == 3 * 120
MAX_TEXT_LEN == 120

\* The reading of millis() in the frame of the current tick.
Epoch == CLEAR_HOLD_MS

Max(a, b) == IF a >= b THEN a ELSE b
Min(a, b) == IF a < b THEN a ELSE b

\* The element of a one-element set.  Only({e(x) : x \in {v}}) is e(v) with
\* v evaluated once, as a local variable holds the value it was given.
Only(S) == CHOOSE r \in S : TRUE

\* ------------------------------------------------------------- Morse table
MORSE_TABLE ==
  << [pattern |-> <<".", "-">>, ch |-> "A"],
     [pattern |-> <<"-", ".", ".", ".">>, ch |-> "B"],
     [pattern |-> <<"-", ".", "-", ".">>, ch |-> "C"],
     [pattern |-> <<"-", ".", ".">>, ch |-> "D"],
     [pattern |-> <<".">>, ch |-> "E"],
     [pattern |-> <<".", ".", "-", ".">>, ch |-> "F"],
     [pattern |-> <<"-", "-", ".">>, ch |-> "G"],
     [pattern |-> <<".", ".", ".", ".">>, ch |-> "H"],
     [pattern |-> <<".", ".">>, ch |-> "I"],
     [pattern |-> <<".", "-", "-", "-">>, ch |-> "J"],
     [pattern |-> <<"-", ".", "-">>, ch |-> "K"],
     [pattern |-> <<".", "-", ".", ".">>, ch |-> "L"],
     [pattern |-> <<"-", "-">>, ch |-> "M"],
     [pattern |-> <<"-", ".">>, ch |-> "N"],
     [pattern |-> <<"-", "-", "-">>, ch |-> "O"],
     [pattern |-> <<".", "-", "-", ".">>, ch |-> "P"],
     [pattern |-> <<"-", "-", ".", "-">>, ch |-> "Q"],
     [pattern |-> <<".", "-", ".">>, ch |-> "R"],
     [pattern |-> <<".", ".", ".">>, ch |-> "S"],
     [pattern |-> <<"-">>, ch |-> "T"],
     [pattern |-> <<".", ".", "-">>, ch |-> "U"],
     [pattern |-> <<".", ".", ".", "-">>, ch |-> "V"],
     [pattern |-> <<".", "-", "-">>, ch |-> "W"],
     [pattern |-> <<"-", ".", ".", "-">>, ch |-> "X"],
     [pattern |-> <<"-", ".", "-", "-">>, ch |-> "Y"],
     [pattern |-> <<"-", "-", ".", ".">>, ch |-> "Z"],
     [pattern |-> <<"-", "-", "-", "-", "-">>, ch |-> "0"],
     [pattern |-> <<".", "-", "-", "-", "-">>, ch |-> "1"],
     [pattern |-> <<".", ".", "-", "-", "-">>, ch |-> "2"],
     [pattern |-> <<".", ".", ".", "-", "-">>, ch |-> "3"],
     [pattern |-> <<".", ".", ".", ".", "-">>, ch |-> "4"],
     [pattern |-> <<".", ".", ".", ".", ".">>, ch |-> "5"],
     [pattern |-> <<"-", ".", ".", ".", ".">>, ch |-> "6"],
     [pattern |-> <<"-", "-", ".", ".", ".">>, ch |-> "7"],
     [pattern |-> <<"-", "-", "-", ".", ".">>, ch |-> "8"],
     [pattern |-> <<"-", "-", "-", "-", ".">>, ch |-> "9"],
     [pattern |-> <<".", "-", ".", "-", ".", "-">>, ch |-> "."],
     [pattern |-> <<"-", "-", ".", ".", "-", "-">>, ch |-> ","],
     [pattern |-> <<".", ".", "-", "-", ".", ".">>, ch |-> "?"],
     [pattern |-> <<".", "-", "-", "-", "-", ".">>, ch |-> "'"],
     [pattern |-> <<"-", ".", "-", ".", "-", "-">>, ch |-> "!"],
     [pattern |-> <<"-", ".", ".", "-", ".">>, ch |-> "/"],
     [pattern |-> <<"-", ".", "-", "-", ".">>, ch |-> "("],
     [pattern |-> <<"-", ".", "-", "-", ".", "-">>, ch |-> ")"],
     [pattern |-> <<".", "-", ".", ".", ".">>, ch |-> "&"],
     [pattern |-> <<"-", "-", "-", ".", ".", ".">>, ch |-> ":"],
     [pattern |-> <<"-", ".", "-", ".", "-", ".">>, ch |-> ";"],
     [pattern |-> <<"-", ".", ".", ".", "-">>, ch |-> "="],
     [pattern |-> <<".", "-", ".", "-", ".">>, ch |-> "+"],
     [pattern |-> <<"-", ".", ".", ".", ".", "-">>, ch |-> "-"],
     [pattern |-> <<".", ".", "-", "-", ".", "-">>, ch |-> "_"],
     [pattern |-> <<".", "-", ".", ".", "-", ".">>, ch |-> "\""],
     [pattern |-> <<".", "-", "-", ".", "-", ".">>, ch |-> "@"] >>

MORSE_TABLE_LEN == Len(MORSE_TABLE)

LowerCase ==
  << "a", "b", "c", "d", "e", "f", "g", "h", "i", "j", "k", "l", "m",
     "n", "o", "p", "q", "r", "s", "t", "u", "v", "w", "x", "y", "z" >>
UpperCase ==
  << "A", "B", "C", "D", "E", "F", "G", "H", "I", "J", "K", "L", "M",
     "N", "O", "P", "Q", "R", "S", "T", "U", "V", "W", "X", "Y", "Z" >>

\* ch - 'a' + 'A' for ch in 'a'..'z', ch otherwise.
ToUpper(ch) ==
  IF \E i \in 1..Len(LowerCase) : LowerCase[i] = ch
  THEN UpperCase[CHOOSE i \in 1..Len(LowerCase) : LowerCase[i] = ch]
  ELSE ch

\* Mutant: the sentinel is a character that is not in the table.
decodeMorse_OtherSentinel(pattern) ==
  LET hits == {i \in 1..MORSE_TABLE_LEN : MORSE_TABLE[i].pattern = pattern}
  IN IF hits = {} THEN "~"
     ELSE MORSE_TABLE[CHOOSE i \in hits : \A j \in hits : i <= j].ch

\* First table entry whose pattern equals the argument, '?' when there is none.
decodeMorse(pattern) ==
  LET hits == {i \in 1..MORSE_TABLE_LEN : MORSE_TABLE[i].pattern = pattern}
  IN IF hits = {} THEN "?"
     ELSE MORSE_TABLE[CHOOSE i \in hits : \A j \in hits : i <= j].ch

\* Mutant: the character is looked up as it is, lower case included.
encodeMorse_NoUpper(c) ==
  LET hits == {i \in 1..MORSE_TABLE_LEN : MORSE_TABLE[i].ch = c}
  IN IF hits = {} THEN <<>>
     ELSE MORSE_TABLE[CHOOSE i \in hits : \A j \in hits : i <= j].pattern

\* Pattern of the first table entry for the upper-cased character, "" when none.
encodeMorse(c) ==
  Only({ LET hits == {i \in 1..MORSE_TABLE_LEN : MORSE_TABLE[i].ch = ch}
          IN IF hits = {} THEN <<>>
             ELSE MORSE_TABLE[CHOOSE i \in hits : \A j \in hits : i <= j].pattern
          : ch \in {ToUpper(c)} })

\* ------------------------------------------------------------ state record
\* The operators below are the program's functions, acting on a record s of
\* the program's globals (one field per global, named as in the source), the
\* buzzer pin (buzzer = TRUE: sounding), the lines written to Serial during
\* the current loop() iteration (serial) and the history of the characters
\* appended to the text log since the last clear (appended).

\* Serial.println / Serial.printf: one line, named by its fixed text.
Emit(s, line) == [s EXCEPT !.serial = Append(@, line)]

buzzerOn(s) == [s EXCEPT !.buzzer = TRUE]
buzzerOff(s) == [s EXCEPT !.buzzer = FALSE]

\* String::remove(0, n): the string without its first n characters.
RemoveFront(str, n) == SubSeq(str, n + 1, Len(str))

\* Mutant: the oldest characters are kept, the newest dropped.
ensureTextLimit_KeepOldest(s) ==
  IF Len(s.decodedText) > MAX_TEXT_LEN
  THEN [s EXCEPT !.decodedText = SubSeq(@, 1, MAX_TEXT_LEN),
                 !.textWasTrimmed = TRUE]
  ELSE s

ensureTextLimit(s) ==
  IF Len(s.decodedText) > MAX_TEXT_LEN
  THEN [s EXCEPT !.decodedText = RemoveFront(@, Len(@) - MAX_TEXT_LEN),
                 !.textWasTrimmed = TRUE]
  ELSE s

pushChar(s, c) ==
  ensureTextLimit([s EXCEPT !.decodedText = Append(@, c),
                            !.appended = Append(@, c)])

\* Mutant: a space is appended to every non-empty log.
pushSpaceIfNeeded_Always(s) ==
  IF Len(s.decodedText) = 0 THEN s
  ELSE ensureTextLimit([s EXCEPT !.decodedText = Append(@, " "),
                                 !.appended = Append(@, " ")])

pushSpaceIfNeeded(s) ==
  IF Len(s.decodedText) = 0 THEN s
  ELSE IF s.decodedText[Len(s.decodedText)] # " "
       THEN ensureTextLimit([s EXCEPT !.decodedText = Append(@, " "),
                                      !.appended = Append(@, " ")])
       ELSE s

commitLetterIfAny(s) ==
  IF Len(s.currentSymbols) = 0 THEN s
  ELSE LET c == decodeMorse(s.currentSymbols)
           s1 == pushChar(s, c)
           s2 == Emit(s1, "LETTER")
       IN [s2 EXCEPT !.currentSymbols = <<>>]

\* Mutant: the pattern in progress survives the clear.
clearAll_KeepsPattern(s) ==
  Emit([s EXCEPT !.decodedText = <<>>,
                 !.appended = <<>>,
                 !.textWasTrimmed = FALSE],
       "** CLEAR **")

clearAll(s) ==
  Emit([s EXCEPT !.decodedText = <<>>,
                 !.appended = <<>>,
                 !.currentSymbols = <<>>,
                 !.textWasTrimmed = FALSE],
       "** CLEAR **")

\* ----------------------------------------------------------------- buttons
\* Debounce and edge detection of one button, given the raw reading of its
\* pin.  Result: the button and the event (0 none, 1 pressed, -1 released).
updateButton(b, raw, now) ==
  IF raw # b.stable
  THEN IF now - b.lastEdgeMs >= DEBOUNCE_MS
       THEN [b |-> [stable |-> raw,
                    lastEdgeMs |-> now,
                    pressStartMs |-> IF raw THEN now ELSE b.pressStartMs],
             ev |-> IF raw THEN 1 ELSE -1]
       ELSE [b |-> b, ev |-> 0]
  ELSE [b |-> [b EXCEPT !.lastEdgeMs = now], ev |-> 0]

anyPressed(s) == s.btnDot.stable \/ s.btnDash.stable

\* ------------------------------------------------------ stage compilation
\* Mutant: no inter-element gap between the symbols of a letter.
PatternStage_NoGap(pat, i, seq) ==
  LET c == pat[i + 1]
  IN IF c = "." \/ c = "-" THEN Append(seq, c) ELSE seq

\* One iteration of the loop of buildStagesForPattern: the sequence after the
\* symbol at index i (0-based) has been handled.
PatternStage(pat, i, seq) ==
  LET c == pat[i + 1]
  IN IF c = "." \/ c = "-"
     THEN IF i < Len(pat) - 1
          THEN Append(Append(seq, c), "i")
          ELSE Append(seq, c)
     ELSE seq

RECURSIVE PatternStagesFrom(_, _, _)
\* The loop of buildStagesForPattern from index i (0-based) with seq so far.
PatternStagesFrom(pat, i, seq) ==
  IF i >= Len(pat) THEN seq
  ELSE Only({ PatternStagesFrom(pat, i + 1, seq1)
               : seq1 \in {PatternStage(pat, i, seq)} })

buildStagesForPattern(pat) == PatternStagesFrom(pat, 0, <<>>)

RECURSIVE SkipSpaces(_, _)
\* while (j < msg.length() && msg[j] == ' ') j++;
SkipSpaces(msg, j) ==
  IF j < Len(msg) /\ msg[j + 1] = " " THEN SkipSpaces(msg, j + 1) ELSE j

\* String::remove(len - 1): the string without its last character.
DropLast(seq) == SubSeq(seq, 1, Len(seq) - 1)

\* One iteration of the loop of buildStagesFromText: the sequence after the
\* character at index i (0-based) has been handled.
TextStage(msg, i, seq) ==
  LET ch == msg[i + 1]
      last == IF Len(seq) = 0 THEN "" ELSE seq[Len(seq)]
  IN IF ch = " "
     THEN IF Len(seq) = 0 \/ last = "/" THEN seq
          ELSE Append(IF last = "|" THEN DropLast(seq) ELSE seq, "/")
     ELSE Only({ IF Len(pat) = 0 THEN seq
                 ELSE IF SkipSpaces(msg, i + 1) < Len(msg)
                      THEN Append(seq \o buildStagesForPattern(pat), "|")
                      ELSE seq \o buildStagesForPattern(pat)
                 : pat \in {encodeMorse(ch)} })

RECURSIVE TextStagesFrom(_, _, _)
\* The loop of buildStagesFromText from index i (0-based) with seq so far.
TextStagesFrom(msg, i, seq) ==
  IF i >= Len(msg) THEN seq
  ELSE Only({ TextStagesFrom(msg, i + 1, seq1)
               : seq1 \in {TextStage(msg, i, seq)} })

buildStagesFromText(msg) ==
  LET seq == TextStagesFrom(msg, 0, <<>>)
  IN IF Len(seq) > 0 /\ seq[Len(seq)] = "|" THEN DropLast(seq) ELSE seq

RECURSIVE TrimTrailingSpaces(_)
TrimTrailingSpaces(msg) ==
  IF Len(msg) > 0 /\ msg[Len(msg)] = " "
  THEN TrimTrailingSpaces(DropLast(msg))
  ELSE msg

\* Mutant: the text log comes first, the pattern only when the log is empty.
buildStagesForPlayback_TextFirst(s) ==
  IF Len(s.decodedText) > 0
  THEN Only({ buildStagesFromText(msg)
               : msg \in {TrimTrailingSpaces(s.decodedText)} })
  ELSE buildStagesForPattern(s.currentSymbols)

buildStagesForPlayback(s) ==
  IF Len(s.currentSymbols) > 0
  THEN buildStagesForPattern(s.currentSymbols)
  ELSE Only({ buildStagesFromText(msg)
               : msg \in {TrimTrailingSpaces(s.decodedText)} })

\* --------------------------------------------------------- playback engine
\* The loop gap, as entered by startStageFromIndex and by servicePlayback.
EnterLoopGap(s, now) ==
  buzzerOff([s EXCEPT !.playInLoopGap = TRUE,
                      !.playToneOn = FALSE,
                      !.playStageDur = PLAY_LOOP_GAP_MS,
                      !.playStageStart = now])

StageTone(c) == c = "." \/ c = "-"

\* Mutant: a dash tone of two units.
StageDur_ShortDash(c) ==
  CASE c = "." -> PLAY_DOT_MS
    [] c = "-" -> 2 * UNIT_MS
    [] c = "i" -> PLAY_INTER_GAP_MS
    [] c = "|" -> LETTER_GAP_MS
    [] c = "/" -> WORD_GAP_MS
    [] OTHER -> PLAY_INTER_GAP_MS

StageDur(c) ==
  CASE c = "." -> PLAY_DOT_MS
    [] c = "-" -> PLAY_DASH_MS
    [] c = "i" -> PLAY_INTER_GAP_MS
    [] c = "|" -> LETTER_GAP_MS
    [] c = "/" -> WORD_GAP_MS
    [] OTHER -> PLAY_INTER_GAP_MS

\* Mutant: the output is driven on for every stage, gaps included.
startStageFromIndex_AlwaysOn(s, now) ==
  IF s.playIndex >= Len(s.playSequence)
  THEN EnterLoopGap(s, now)
  ELSE LET c == s.playSequence[s.playIndex + 1]
           s1 == [s EXCEPT !.playToneOn = StageTone(c),
                           !.playStageDur = StageDur(c)]
       IN [buzzerOn(s1) EXCEPT !.playStageStart = now]

startStageFromIndex(s, now) ==
  IF s.playIndex >= Len(s.playSequence)
  THEN EnterLoopGap(s, now)
  ELSE LET c == s.playSequence[s.playIndex + 1]
           s1 == [s EXCEPT !.playToneOn = StageTone(c),
                           !.playStageDur = StageDur(c)]
           s2 == IF StageTone(c) THEN buzzerOn(s1) ELSE buzzerOff(s1)
       IN [s2 EXCEPT !.playStageStart = now]

stopPlayback(s) == buzzerOff([s EXCEPT !.playActive = FALSE])

\* Mutant: the playback starts whatever the compilation gave.
startPlayback_NoCheck(s, now) ==
  Only({ Emit(startStageFromIndex([s1 EXCEPT !.playIndex = 0,
                                             !.playActive = TRUE,
                                             !.playInLoopGap = FALSE],
                                  now),
              "PLAY START")
          : s1 \in {[s EXCEPT !.playSequence = buildStagesForPlayback(s)]} })

startPlayback(s, now) ==
  Only({ IF Len(s1.playSequence) = 0
          THEN Emit(s1, "PLAY: NO SEQUENCE")
          ELSE Emit(startStageFromIndex([s1 EXCEPT !.playIndex = 0,
                                                   !.playActive = TRUE,
                                                   !.playInLoopGap = FALSE],
                                        now),
                    "PLAY START")
          : s1 \in {[s EXCEPT !.playSequence = buildStagesForPlayback(s)]} })

\* Mutant: after the loop gap the sequence restarts at its second stage.
servicePlayback_SkipFirst(s, now) ==
  IF ~s.playActive THEN s
  ELSE IF s.playInLoopGap
  THEN IF now - s.playStageStart >= s.playStageDur
       THEN startStageFromIndex([s EXCEPT !.playInLoopGap = FALSE,
                                          !.playIndex = 1], now)
       ELSE s
  ELSE IF now - s.playStageStart >= s.playStageDur
       THEN LET s1 == [s EXCEPT !.playIndex = @ + 1]
            IN IF s1.playIndex >= Len(s1.playSequence)
               THEN EnterLoopGap(s1, now)
               ELSE startStageFromIndex(s1, now)
       ELSE s

servicePlayback(s, now) ==
  IF ~s.playActive THEN s
  ELSE IF s.playInLoopGap
  THEN IF now - s.playStageStart >= s.playStageDur
       THEN startStageFromIndex([s EXCEPT !.playInLoopGap = FALSE,
                                          !.playIndex = 0], now)
       ELSE s
  ELSE IF now - s.playStageStart >= s.playStageDur
       THEN LET s1 == [s EXCEPT !.playIndex = @ + 1]
            IN IF s1.playIndex >= Len(s1.playSequence)
               THEN EnterLoopGap(s1, now)
               ELSE startStageFromIndex(s1, now)
       ELSE s

\* -------------------------------------------------------------------- state
VARIABLES
  btnDot, btnDash, btnOk,          \* Btn structs
  prevAnyPressed, lastSilenceStartMs,
  okMultiCount, okMultiStartMs, okClearLatched,
  playActive, playSequence, playIndex, playStageStart, playStageDur,
  playToneOn, playInLoopGap,
  currentSymbols, decodedText, textWasTrimmed,
  buzzer,                          \* level of BUZZER_PIN: TRUE = sounding
  serial,                          \* lines printed by the last loop()
  evDot, evDash, evOk,             \* loop()'s locals in its last iteration
  appended,                        \* history: every character appended to
                                   \* decodedText since the last clear
  tapRunPlaying,                   \* history: see TapRunPlaying
  silenceMs,                       \* history: see SilenceMs
  tapPattern,                      \* history: see TapPattern
  pinBtn, pinEv,                   \* one Btn polled on its own, its last event
  pinRaw,                          \* the raw level of its pin (TRUE = pressed)
  pinDiffMs                        \* history: for how long the raw level has
                                   \* differed from pinBtn.stable without a
                                   \* break (counted up to DEBOUNCE_MS)

progVars ==
  << btnDot, btnDash, btnOk, prevAnyPressed, lastSilenceStartMs,
     okMultiCount, okMultiStartMs, okClearLatched,
     playActive, playSequence, playIndex, playStageStart, playStageDur,
     playToneOn, playInLoopGap,
     currentSymbols, decodedText, textWasTrimmed,
     buzzer, serial, evDot, evDash, evOk, appended, tapRunPlaying,
     silenceMs, tapPattern >>

pinVars == << pinBtn, pinEv, pinRaw, pinDiffMs >>

vars == << progVars, pinVars >>

\* The globals as one record.
Globals ==
  [ btnDot |-> btnDot, btnDash |-> btnDash, btnOk |-> btnOk,
    prevAnyPressed |-> prevAnyPressed,
    lastSilenceStartMs |-> lastSilenceStartMs,
    okMultiCount |-> okMultiCount, okMultiStartMs |-> okMultiStartMs,
    okClearLatched |-> okClearLatched,
    playActive |-> playActive, playSequence |-> playSequence,
    playIndex |-> playIndex, playStageStart |-> playStageStart,
    playStageDur |-> playStageDur, playToneOn |-> playToneOn,
    playInLoopGap |-> playInLoopGap,
    currentSymbols |-> currentSymbols, decodedText |-> decodedText,
    textWasTrimmed |-> textWasTrimmed,
    buzzer |-> buzzer, serial |-> serial,
    evDot |-> evDot, evDash |-> evDash, evOk |-> evOk,
    appended |-> appended ]

\* A stamp seen dt ms later: dt further back, at most to its horizon.
Back(x, dt, horizon) == Max(x - dt, Epoch - horizon)

\* hold: the horizon of pressStartMs.  A horizon is the largest threshold the
\* stamp is compared with (one more where the comparison is > or <=).
SlideBtn(b, dt, hold) ==
  [b EXCEPT !.lastEdgeMs = Back(@, dt, DEBOUNCE_MS),
            !.pressStartMs = Back(@, dt, hold)]

\* Horizons.  pressStartMs is read for btnOk only, and only while or right
\* after btnOk is stably pressed; okMultiStartMs only while taps are pending;
\* lastSilenceStartMs only at a press that follows prevAnyPressed = false
\* (a release first sets it anew); playStageStart only during playback.
HoldHorizon(s) == IF s.btnOk.stable THEN CLEAR_HOLD_MS ELSE 0
MultiHorizon(s) == IF s.okMultiCount > 0 THEN OK_MULTI_WINDOW_MS + 1 ELSE 0
SilenceHorizon(s) == IF s.prevAnyPressed THEN 0 ELSE WORD_GAP_MS
StageHorizon(s) == IF s.playActive THEN WORD_GAP_MS ELSE 0

\* The sequencer while playActive is false: the program keeps the fields of
\* the last playback, and startPlayback and startStageFromIndex write each of
\* them before servicePlayback reads it again.  They are kept as at boot.
Rest(s) ==
  IF s.playActive THEN s
  ELSE [s EXCEPT !.playSequence = <<>>, !.playIndex = 0, !.playStageDur = 0,
                 !.playToneOn = FALSE, !.playInLoopGap = FALSE]

\* The globals in the frame of a tick that starts dt ms after the last one.
Slide(s, dt) ==
  [Rest(s) EXCEPT !.btnDot = SlideBtn(@, dt, 0),
                  !.btnDash = SlideBtn(@, dt, 0),
                  !.btnOk = SlideBtn(@, dt, HoldHorizon(s)),
                  !.lastSilenceStartMs = Back(@, dt, SilenceHorizon(s)),
                  !.okMultiStartMs = Back(@, dt, MultiHorizon(s)),
                  !.playStageStart = Back(@, dt, StageHorizon(s))]

\* --------------------------------------------------------------- loop()
\* Mutant: outside playback the buzzer is always driven off.
BuzzerBehavior_NoSidetone(s, now) ==
  IF s.playActive
  THEN servicePlayback(s, now)
  ELSE LET nowAnyPressed == anyPressed(s)
           s1 == buzzerOff(s)
           gap == now - s1.lastSilenceStartMs
           s2 == IF ~s1.prevAnyPressed /\ nowAnyPressed
                 THEN IF gap >= WORD_GAP_MS
                      THEN Emit(pushSpaceIfNeeded(commitLetterIfAny(s1)),
                                "GAP: WORD (auto)")
                      ELSE IF gap >= LETTER_GAP_MS
                           THEN Emit(commitLetterIfAny(s1), "GAP: LETTER (auto)")
                           ELSE s1
                 ELSE s1
           s3 == IF s2.prevAnyPressed /\ ~nowAnyPressed
                 THEN [s2 EXCEPT !.lastSilenceStartMs = now]
                 ELSE s2
       IN [s3 EXCEPT !.prevAnyPressed = nowAnyPressed]

\* Lines 505-537: the buzzer and the idle gaps, playback or keying.
BuzzerBehavior(s, now) ==
  IF s.playActive
  THEN servicePlayback(s, now)
  ELSE LET nowAnyPressed == anyPressed(s)
           s1 == IF nowAnyPressed THEN buzzerOn(s) ELSE buzzerOff(s)
           gap == now - s1.lastSilenceStartMs
           s2 == IF ~s1.prevAnyPressed /\ nowAnyPressed
                 THEN IF gap >= WORD_GAP_MS
                      THEN Emit(pushSpaceIfNeeded(commitLetterIfAny(s1)),
                                "GAP: WORD (auto)")
                      ELSE IF gap >= LETTER_GAP_MS
                           THEN Emit(commitLetterIfAny(s1), "GAP: LETTER (auto)")
                           ELSE s1
                 ELSE s1
           s3 == IF s2.prevAnyPressed /\ ~nowAnyPressed
                 THEN [s2 EXCEPT !.lastSilenceStartMs = now]
                 ELSE s2
       IN [s3 EXCEPT !.prevAnyPressed = nowAnyPressed]

\* Lines 539-549: a released Dot or Dash appends its symbol.
AppendSymbols(s) ==
  LET s1 == IF s.evDot = -1
            THEN Emit([s EXCEPT !.currentSymbols = Append(@, ".")], "DOT")
            ELSE s
  IN IF s1.evDash = -1
     THEN Emit([s1 EXCEPT !.currentSymbols = Append(@, "-")], "DASH")
     ELSE s1

\* Mutant: the clear is not latched.
LongPress_NoLatch(s, now) ==
  LET s1 == IF s.btnOk.stable /\ ~s.okClearLatched
               /\ now - s.btnOk.pressStartMs >= CLEAR_HOLD_MS
            THEN [stopPlayback(clearAll(s)) EXCEPT !.okMultiCount = 0]
            ELSE s
  IN IF ~s1.btnOk.stable THEN [s1 EXCEPT !.okClearLatched = FALSE] ELSE s1

\* Lines 551-560: OK held for CLEAR_HOLD_MS clears, once per press.
LongPress(s, now) ==
  LET s1 == IF s.btnOk.stable /\ ~s.okClearLatched
               /\ now - s.btnOk.pressStartMs >= CLEAR_HOLD_MS
            THEN [stopPlayback([clearAll(s) EXCEPT !.okClearLatched = TRUE])
                    EXCEPT !.okMultiCount = 0]
            ELSE s
  IN IF ~s1.btnOk.stable THEN [s1 EXCEPT !.okClearLatched = FALSE] ELSE s1

\* Mutant: the second tap already toggles.
TripleTap_AtTwo(s, now) ==
  IF s.okMultiCount >= 2
  THEN LET s1 == IF s.playActive
                 THEN Emit(stopPlayback(s), "PLAY TOGGLE: OFF")
                 ELSE LET p == startPlayback(s, now)
                      IN IF p.playActive THEN Emit(p, "PLAY TOGGLE: ON") ELSE p
       IN [s1 EXCEPT !.okMultiCount = 0]
  ELSE s

\* Lines 588-603: the third tap toggles playback.
TripleTap(s, now) ==
  IF s.okMultiCount >= 3
  THEN LET s1 == IF s.playActive
                 THEN Emit(stopPlayback(s), "PLAY TOGGLE: OFF")
                 ELSE LET p == startPlayback(s, now)
                      IN IF p.playActive THEN Emit(p, "PLAY TOGGLE: ON") ELSE p
       IN [s1 EXCEPT !.okMultiCount = 0]
  ELSE s

\* Lines 562-605: a short OK release is counted as a tap.
ShortPress(s, now) ==
  IF s.evOk = -1
  THEN LET held == now - s.btnOk.pressStartMs IN
       IF held < CLEAR_HOLD_MS
       THEN LET s1 ==
                  IF s.okMultiCount = 0
                  THEN [s EXCEPT !.okMultiCount = 1, !.okMultiStartMs = now]
                  ELSE IF now - s.okMultiStartMs <= OK_MULTI_WINDOW_MS
                  THEN [s EXCEPT !.okMultiCount = (@ + 1) % 256]
                  ELSE LET c == IF s.okMultiCount < 3
                                THEN Emit(commitLetterIfAny(s),
                                          "OK: COMMIT (timeout)")
                                ELSE s
                       IN [c EXCEPT !.okMultiCount = 1, !.okMultiStartMs = now]
            IN TripleTap(s1, now)
       ELSE s
  ELSE s

\* Mutant: the expired window is dropped without a commit.
TapTimeout_NoCommit(s, now) ==
  IF s.okMultiCount > 0 /\ now - s.okMultiStartMs > OK_MULTI_WINDOW_MS
  THEN [s EXCEPT !.okMultiCount = 0]
  ELSE s

\* Mutant: only an expired double tap is resolved.
TapTimeout_DoubleOnly(s, now) ==
  IF s.okMultiCount > 1 /\ now - s.okMultiStartMs > OK_MULTI_WINDOW_MS
  THEN LET c == IF s.okMultiCount < 3
                THEN Emit(commitLetterIfAny(s), "OK: COMMIT")
                ELSE s
       IN [c EXCEPT !.okMultiCount = 0]
  ELSE s

\* Mutant: the count survives the commit of the run.
TapTimeout_KeepsCount(s, now) ==
  IF s.okMultiCount > 0 /\ now - s.okMultiStartMs > OK_MULTI_WINDOW_MS
  THEN IF s.okMultiCount < 3
       THEN Emit(commitLetterIfAny(s), "OK: COMMIT")
       ELSE s
  ELSE s

\* Lines 607-616: a tap window that ran out commits the letter.
TapTimeout(s, now) ==
  IF s.okMultiCount > 0 /\ now - s.okMultiStartMs > OK_MULTI_WINDOW_MS
  THEN LET c == IF s.okMultiCount < 3
                THEN Emit(commitLetterIfAny(s), "OK: COMMIT")
                ELSE s
       IN [c EXCEPT !.okMultiCount = 0]
  ELSE s

\* Mutant: every edge cancels, releases included.
CancelOnInput_AnyEdge(s) ==
  IF s.playActive /\ (s.evDot # 0 \/ s.evDash # 0 \/ s.evOk # 0)
  THEN Emit(stopPlayback(s), "PLAY STOP (user input)")
  ELSE s

\* Mutant: a Dash press does not cancel.
CancelOnInput_NoDash(s) ==
  IF s.playActive /\ (s.evDot = 1 \/ s.evOk = 1)
  THEN Emit(stopPlayback(s), "PLAY STOP (user input)")
  ELSE s

\* Lines 498-503: a pressed edge cancels playback.
CancelOnInput(s) ==
  IF s.playActive /\ (s.evDot = 1 \/ s.evDash = 1 \/ s.evOk = 1)
  THEN Emit(stopPlayback(s), "PLAY STOP (user input)")
  ELSE s

\* Lines 494-496: the three buttons are polled with the given pin readings
\* (TRUE = pressed); the Serial lines of the iteration start empty.
UpdateButtons(s, now, rawDot, rawDash, rawOk) ==
  LET uDot == updateButton(s.btnDot, rawDot, now)
      uDash == updateButton(s.btnDash, rawDash, now)
      uOk == updateButton(s.btnOk, rawOk, now)
  IN [s EXCEPT !.btnDot = uDot.b, !.btnDash = uDash.b, !.btnOk = uOk.b,
               !.evDot = uDot.ev, !.evDash = uDash.ev, !.evOk = uOk.ev,
               !.serial = <<>>]

\* ------------------------------------------------------------ specification
\* After setup(): the buttons as read at boot; every stamp was taken at or
\* before setup(), which the 2000 ms splash delay puts beyond its horizon.
BootBtn(raw, hold) ==
  [stable |-> raw, lastEdgeMs |-> Epoch - DEBOUNCE_MS,
   pressStartMs |-> Epoch - hold]

\* The globals after setup() with the buttons reading rd, rh, ro and the text
\* log holding msg (empty at boot).
Boot(rd, rh, ro, msg) ==
  [ btnDot |-> BootBtn(rd, 0),
    btnDash |-> BootBtn(rh, 0),
    btnOk |-> BootBtn(ro, IF ro THEN CLEAR_HOLD_MS ELSE 0),
    prevAnyPressed |-> (rd \/ rh),
    lastSilenceStartMs |-> IF rd \/ rh THEN Epoch ELSE Epoch - WORD_GAP_MS,
    okMultiCount |-> 0,
    okMultiStartMs |-> Epoch,
    okClearLatched |-> FALSE,
    playActive |-> FALSE,
    playSequence |-> <<>>,
    playIndex |-> 0,
    playStageStart |-> Epoch,
    playStageDur |-> 0,
    playToneOn |-> FALSE,
    playInLoopGap |-> FALSE,
    currentSymbols |-> <<>>,
    decodedText |-> msg,
    textWasTrimmed |-> FALSE,
    buzzer |-> FALSE,
    serial |-> <<>>,
    evDot |-> 0,
    evDash |-> 0,
    evOk |-> 0,
    appended |-> msg ]

\* The globals are those of the record s.
Holds(s) ==
  /\ btnDot = s.btnDot
  /\ btnDash = s.btnDash
  /\ btnOk = s.btnOk
  /\ prevAnyPressed = s.prevAnyPressed
  /\ lastSilenceStartMs = s.lastSilenceStartMs
  /\ okMultiCount = s.okMultiCount
  /\ okMultiStartMs = s.okMultiStartMs
  /\ okClearLatched = s.okClearLatched
  /\ playActive = s.playActive
  /\ playSequence = s.playSequence
  /\ playIndex = s.playIndex
  /\ playStageStart = s.playStageStart
  /\ playStageDur = s.playStageDur
  /\ playToneOn = s.playToneOn
  /\ playInLoopGap = s.playInLoopGap
  /\ currentSymbols = s.currentSymbols
  /\ decodedText = s.decodedText
  /\ textWasTrimmed = s.textWasTrimmed
  /\ buzzer = s.buzzer
  /\ serial = s.serial
  /\ evDot = s.evDot
  /\ evDash = s.evDash
  /\ evOk = s.evOk
  /\ appended = s.appended

\* The state after setup().
Start(rd, rh, ro, msg) ==
  /\ \E s \in {Boot(rd, rh, ro, msg)} : Holds(s)
  /\ tapRunPlaying = FALSE
  /\ silenceMs = IF rd \/ rh THEN 0 ELSE WORD_GAP_MS
  /\ tapPattern = <<>>

\* The button polled on its own, left alone: released and at rest.
PinIdle ==
  /\ pinBtn = BootBtn(FALSE, 0)
  /\ pinEv = 0
  /\ pinRaw = FALSE
  /\ pinDiffMs = 0

Init ==
  /\ \E rd \in BOOLEAN, rh \in BOOLEAN, ro \in BOOLEAN : Start(rd, rh, ro, <<>>)
  /\ PinIdle

\* The keying the bounds admit: the pattern and the text stay within
\* MaxSymbols and MaxText, with room in the text for the letter in progress.
WithinBounds ==
  /\ Len(currentSymbols) <= MaxSymbols
  /\ Len(decodedText) <= MaxText
  /\ (Len(currentSymbols) > 0 => Len(decodedText) < MaxText)

\* History variable for the toggle: whether playback was active when loop()
\* accepted the Confirm press that began the tap run in progress (the press
\* found no tap pending).  FALSE again once no tap is pending and Confirm is
\* released.
TapRunPlaying(s) ==
  IF s.evOk = 1 /\ okMultiCount = 0 THEN playActive
  ELSE IF s.okMultiCount = 0 /\ ~s.btnOk.stable THEN FALSE
  ELSE tapRunPlaying

\* History variable for the tap run: the pattern in progress as the Confirm
\* release that opened the tap window found it (the release that set the
\* count to 1 and the window start to now); empty while no tap is pending.
TapPattern(s) ==
  IF s.okMultiCount = 0 THEN <<>>
  ELSE IF s.evOk = -1 /\ s.okMultiCount = 1 /\ s.okMultiStartMs = Epoch
       THEN s.currentSymbols
       ELSE tapPattern

\* History variable for the silence: for how long Dot and Dash have both
\* been stably released, counted from the loop() that found the last of them
\* released up to the last loop() (0 while one of them is pressed; counted up
\* to WORD_GAP_MS; the time setup() takes counts as silence).
SilenceMs(s, dt) ==
  IF s.btnDot.stable \/ s.btnDash.stable THEN 0
  ELSE IF btnDot.stable \/ btnDash.stable THEN 0
  ELSE Min(silenceMs + dt, WORD_GAP_MS)

\* The periods between two readings of millis().
DtSet == {TickMs}

\* The globals become those of the record s.
Becomes(s) ==
  /\ btnDot' = s.btnDot
  /\ btnDash' = s.btnDash
  /\ btnOk' = s.btnOk
  /\ prevAnyPressed' = s.prevAnyPressed
  /\ lastSilenceStartMs' = s.lastSilenceStartMs
  /\ okMultiCount' = s.okMultiCount
  /\ okMultiStartMs' = s.okMultiStartMs
  /\ okClearLatched' = s.okClearLatched
  /\ playActive' = s.playActive
  /\ playSequence' = s.playSequence
  /\ playIndex' = s.playIndex
  /\ playStageStart' = s.playStageStart
  /\ playStageDur' = s.playStageDur
  /\ playToneOn' = s.playToneOn
  /\ playInLoopGap' = s.playInLoopGap
  /\ currentSymbols' = s.currentSymbols
  /\ decodedText' = s.decodedText
  /\ textWasTrimmed' = s.textWasTrimmed
  /\ buzzer' = s.buzzer
  /\ serial' = s.serial
  /\ evDot' = s.evDot
  /\ evDash' = s.evDash
  /\ evOk' = s.evOk
  /\ appended' = s.appended

\* One iteration of loop(), dt after the previous one, with the given pin
\* readings: its steps in the order of the code, each on the result of the
\* one before.  drawUI() only reads the globals.
Tick(dt, rawDot, rawDash, rawOk) ==
  \E s0 \in {Slide(Globals, dt)} :
  \E s1 \in {UpdateButtons(s0, Epoch, rawDot, rawDash, rawOk)} :
  \E s2 \in {CancelOnInput(s1)} :
  \E s3 \in {BuzzerBehavior(s2, Epoch)} :
  \E s4 \in {AppendSymbols(s3)} :
  \E s5 \in {LongPress(s4, Epoch)} :
  \E s6 \in {ShortPress(s5, Epoch)} :
  \E s \in {TapTimeout(s6, Epoch)} :
     /\ Becomes(s)
     /\ tapRunPlaying' = TapRunPlaying(s)
     /\ silenceMs' = SilenceMs(s, dt)
     /\ tapPattern' = TapPattern(s)
     /\ UNCHANGED pinVars

Next ==
  \E dt \in DtSet, rawDot \in BOOLEAN, rawDash \in BOOLEAN, rawOk \in BOOLEAN :
    Tick(dt, rawDot, rawDash, rawOk) /\ WithinBounds'

Spec == Init /\ [][Next]_vars

\* loop() runs again and again.
FairSpec == Spec /\ WF_vars(Next)

\* ----------------------------------------------- playback of a kept message
\* The keyer idle with a message in the text log, every key released and
\* every timer run out; from there Confirm is operated freely, Dot and Dash
\* may be pressed and held, and no new symbol is keyed.
Messages ==
  { <<"S", "O", "S">>, <<"E", " ", "T">>, <<"A", "N">> }

InitMsg ==
  /\ \E msg \in Messages : Start(FALSE, FALSE, FALSE, msg)
  /\ PinIdle

NoKeying == evDot # -1 /\ evDash # -1

NextMsg ==
  \E dt \in DtSet, rawDot \in BOOLEAN, rawDash \in BOOLEAN, rawOk \in BOOLEAN :
    Tick(dt, rawDot, rawDash, rawOk) /\ NoKeying'

SpecMsg == InitMsg /\ [][NextMsg]_vars

FairSpecMsg == SpecMsg /\ WF_vars(NextMsg)

\* ------------------------------------------------- one button on its own
\* updateButton followed through time in steps of GrainMs: the pin changes
\* level at any moment, time passes between two polls, and a poll calls
\* updateButton with the level the pin has then.  After setup() the button
\* holds the level read at boot, stamped before the 2000 ms splash delay;
\* the pin may have changed since.
InitPin ==
  /\ Start(FALSE, FALSE, FALSE, <<>>)
  /\ \E boot \in BOOLEAN, raw \in BOOLEAN :
       /\ pinBtn = BootBtn(boot, 0)
       /\ pinRaw = raw
       /\ pinDiffMs \in (IF raw # boot THEN {0, DEBOUNCE_MS} ELSE {0})
  /\ pinEv = 0

\* The pin changes level.
PinChange ==
  /\ pinRaw' = ~pinRaw
  /\ pinDiffMs' = 0
  /\ UNCHANGED <<pinBtn, pinEv, progVars>>

\* GrainMs pass without a poll (delay(5), drawUI()).
PinWait ==
  /\ pinBtn' = SlideBtn(pinBtn, GrainMs, 0)
  /\ pinDiffMs' = IF pinRaw # pinBtn.stable
                  THEN Min(pinDiffMs + GrainMs, DEBOUNCE_MS)
                  ELSE 0
  /\ UNCHANGED <<pinRaw, pinEv, progVars>>

\* loop() polls the button: updateButton at the current reading of millis().
PinPoll ==
  \E u \in {updateButton(pinBtn, pinRaw, Epoch)} :
     /\ pinBtn' = u.b
     /\ pinEv' = u.ev
     /\ pinDiffMs' = IF u.ev # 0 THEN 0 ELSE pinDiffMs
     /\ UNCHANGED <<pinRaw, progVars>>

NextPin == PinChange \/ PinWait \/ PinPoll

SpecPin == InitPin /\ [][NextPin]_vars

\* ------------------------------------------------- the start of a playback
\* The third tap of a triple tap about to end: two taps counted, Confirm
\* accepted as pressed by the last loop(), the window still open at the next
\* one.  The text log holds any text over Alphabet (a supported upper-case
\* letter, another, a supported lower-case letter, the space, a character
\* outside the table), the pattern is one of Patterns, Dot is held (and
\* sounding) or not.
\* From there Confirm is released and stays released, Dot can only be
\* released, Dash is left alone.
Alphabet == {"S", "O", "e", " ", "#"}

RECURSIVE TextsOfLen(_)
TextsOfLen(n) ==
  IF n = 0 THEN { <<>> }
  ELSE { Append(w, c) : w \in TextsOfLen(n - 1), c \in Alphabet }

Texts == UNION { TextsOfLen(n) : n \in 0..MaxMsgLen }

Patterns == { <<>>, <<".">>, <<"-", ".">> }

InitStart ==
  /\ \E msg \in Texts, pat \in Patterns, rd \in BOOLEAN :
       \E s \in {[Boot(rd, FALSE, TRUE, msg) EXCEPT
                    !.currentSymbols = pat,
                    !.buzzer = rd,
                    !.btnOk = [stable |-> TRUE, lastEdgeMs |-> Epoch,
                               pressStartMs |-> Epoch],
                    !.evOk = 1,
                    !.okMultiCount = 2,
                    !.okMultiStartMs = Epoch - (OK_MULTI_WINDOW_MS - TickMs)]} :
          /\ Holds(s)
          /\ silenceMs = (IF rd THEN 0 ELSE WORD_GAP_MS)
          /\ tapPattern = pat
  /\ tapRunPlaying = FALSE
  /\ PinIdle

NextStart ==
  \E dt \in DtSet, rawDot \in {b \in BOOLEAN : b => btnDot.stable} :
    Tick(dt, rawDot, FALSE, FALSE)

SpecStart == InitStart /\ [][NextStart]_vars

\* --------------------------------------------------- the text log on its own
\* The operations on the pattern and the text log, applied one after the
\* other in any order from the state after setup(): a symbol is appended to
\* the pattern (a key released), the pattern is committed, a space is asked
\* for, everything is cleared.  At most MaxMsgLen characters are appended
\* to a short log, and a log within CapRoom of MAX_TEXT_LEN is followed until
\* MaxOver characters have been dropped.
LogRoom ==
  \/ Len(appended) < MaxMsgLen
  \/ /\ Len(appended) >= MAX_TEXT_LEN - CapRoom
     /\ Len(appended) < MAX_TEXT_LEN + MaxOver

Quiet == [Globals EXCEPT !.serial = <<>>, !.evDot = 0, !.evDash = 0, !.evOk = 0]

LogKeep == UNCHANGED << tapRunPlaying, silenceMs, tapPattern, pinVars >>

LogKey ==
  /\ Len(currentSymbols) < MaxSymbols
  /\ \E d \in {-1, 0} :
       \E s \in {AppendSymbols([Quiet EXCEPT !.evDot = d,
                                              !.evDash = -1 - d])} :
          Becomes(s)
  /\ LogKeep

LogCommit ==
  /\ LogRoom
  /\ \E s \in {commitLetterIfAny(Quiet)} : Becomes(s)
  /\ LogKeep

LogSpace ==
  /\ LogRoom
  /\ \E s \in {pushSpaceIfNeeded(Quiet)} : Becomes(s)
  /\ LogKeep

LogClear ==
  /\ \E s \in {clearAll(Quiet)} : Becomes(s)
  /\ LogKeep

NextLog == LogKey \/ LogCommit \/ LogSpace \/ LogClear

SpecLog == Init /\ [][NextLog]_vars

\* The same operations on a log that many commits have filled to within
\* CapRoom characters of MAX_TEXT_LEN: "SOS SOS SOS ..." keyed since the
\* last clear, nothing dropped so far.
Filler(n) ==
  [k \in 1..n |-> IF k % 4 = 0 THEN " " ELSE IF k % 4 = 2 THEN "O" ELSE "S"]

InitCap ==
  /\ \E room \in 0..CapRoom :
       Start(FALSE, FALSE, FALSE, Filler(MAX_TEXT_LEN - room))
  /\ PinIdle

SpecCap == InitCap /\ [][NextLog]_vars

\* ------------------------------------------------------ the codec on its own
\* decodeMorse and encodeMorse applied to every input of interest: the log
\* holds one character (of the table, a lower-case letter, or one of four
\* characters outside the table) and a playback is started, which encodes
\* it; or a pattern of up to MaxCodeLen symbols is in progress and is
\* committed, which decodes it, and played.
TableChars == { MORSE_TABLE[i].ch : i \in 1..MORSE_TABLE_LEN }
LowerChars == { LowerCase[i] : i \in 1..Len(LowerCase) }
OutsideChars == { " ", "#", "$", "~" }
CodecChars == TableChars \cup LowerChars \cup OutsideChars

RECURSIVE CodesOfLen(_)
CodesOfLen(n) ==
  IF n = 0 THEN { <<>> }
  ELSE { Append(p, c) : p \in CodesOfLen(n - 1), c \in {".", "-"} }

CodePatterns == UNION { CodesOfLen(n) : n \in 1..MaxCodeLen }

InitCodec ==
  /\ \/ \E c \in CodecChars :
          \E s \in {Boot(FALSE, FALSE, FALSE, << c >>)} : Holds(s)
     \/ \E pat \in CodePatterns :
          \E s \in {[Boot(FALSE, FALSE, FALSE, <<>>) EXCEPT
                       !.currentSymbols = pat]} : Holds(s)
  /\ tapRunPlaying = FALSE
  /\ silenceMs = WORD_GAP_MS
  /\ tapPattern = <<>>
  /\ PinIdle

CodecStart ==
  /\ ~playActive
  /\ \E s \in {startPlayback(Quiet, Epoch)} : Becomes(s)
  /\ LogKeep

NextCodec == LogCommit \/ CodecStart

SpecCodec == InitCodec /\ [][NextCodec]_vars

\* ------------------------------------------------ keying, then a playback
\* The text log as the keyer itself fills it, and a playback started from
\* it: from the state after setup(), with nothing keyed or with the four
\* symbols . . - - (a pattern of no table entry) in progress, the
\* operations on the pattern and the log in any order, and startPlayback
\* at any moment.
KeyedPatterns == { <<>>, << ".", ".", "-", "-" >> }

InitKeyed ==
  /\ \E pat \in KeyedPatterns :
       \E s \in {[Boot(FALSE, FALSE, FALSE, <<>>) EXCEPT
                    !.currentSymbols = pat]} : Holds(s)
  /\ tapRunPlaying = FALSE
  /\ silenceMs = WORD_GAP_MS
  /\ tapPattern = <<>>
  /\ PinIdle

NextKeyed == (~playActive /\ NextLog) \/ CodecStart

SpecKeyed == InitKeyed /\ [][NextKeyed]_vars

\* ------------------------------------------------------------ observations
\* What the last loop() did, read off its Serial lines and its locals.
Printed(line) == \E i \in 1..Len(serial) : serial[i] = line
Count(line) == Cardinality({i \in 1..Len(serial) : serial[i] = line})

PressEdge == evDot = 1 \/ evDash = 1 \/ evOk = 1
KeyEdge == evDot # 0 \/ evDash # 0
AnyEdge == KeyEdge \/ evOk # 0

\* commitLetterIfAny was called for a resolved single or double tap.
TapCommits == Count("OK: COMMIT") + Count("OK: COMMIT (timeout)")
\* The triple tap toggled playback (stopPlayback or startPlayback was called).
Toggled ==
  Printed("PLAY TOGGLE: OFF") \/ Printed("PLAY START") \/ Printed("PLAY: NO SEQUENCE")
ClearFired == Printed("** CLEAR **")

\* now - btnOk.pressStartMs and now - okMultiStartMs as loop() last saw them
\* (exact below the stamp's horizon).
Held == Epoch - btnOk.pressStartMs
\* now - okMultiStartMs as the next loop() will see it.
WindowAgeNext == Epoch - Back(okMultiStartMs, TickMs, MultiHorizon(Globals))
\* loop() accepted a Released edge of Confirm held for less than CLEAR_HOLD_MS.
ShortRelease == evOk = -1 /\ Held < CLEAR_HOLD_MS

\* --------------------------------------------------------------------- C1
\* C1: a Pressed edge on Dot, Dash or Confirm accepted in a tick that began
\* with playback active leaves playback inactive at the end of that tick; and
\* playback only ever becomes active in the tick of the Confirm release that
\* completes a triple tap (the third short release of a tap run).
C1_Step ==
  /\ (playActive /\ PressEdge') => ~playActive'
  /\ (~playActive /\ playActive') =>
       /\ okMultiCount = 2 /\ ShortRelease' /\ okMultiCount' = 0
       /\ Printed("PLAY START")'

C1_CancelOnPress == [][C1_Step]_vars

\* A press has just cancelled a playback.
C1_Witness ==
  ~playActive /\ PressEdge /\ Printed("PLAY STOP (user input)") /\ ~buzzer

\* --------------------------------------------------------------------- C2
\* loop() accepted, in this step, the third short Confirm release of a tap
\* run inside the tap window: the triple tap.
ThirdRelease == okMultiCount = 2 /\ ShortRelease' /\ okMultiCount' = 0

\* C2: when a triple tap is performed while playback is active (the tap run
\* began with a Confirm press accepted while playing), after its third
\* release playback is inactive and the output is off.
C2_Step == (tapRunPlaying /\ ThirdRelease) => (~playActive' /\ ~buzzer')

C2_ToggleStops == [][C2_Step]_vars

\* C2: the stopping branch of the toggle is never taken: no tick prints
\* "PLAY TOGGLE: OFF".
C2_NeverToggledOff == ~Printed("PLAY TOGGLE: OFF")

\* --------------------------------------------------------------------- C3
\* The tap window is still open at the next loop().
WindowOpen == WindowAgeNext <= OK_MULTI_WINDOW_MS

\* C3: a short Confirm release with no tap pending opens a run (count 1); a
\* second one inside the window makes the count 2; a third one inside the
\* window toggles playback in that same tick and leaves the count 0.  None
\* of these ticks, nor any tick in between while the window is open, commits
\* a letter for a tap, and without a Dot or Dash edge the pattern and the
\* text log stay as they were.
C3_Step ==
  /\ (ShortRelease' /\ okMultiCount = 0) =>
       (okMultiCount' = 1 /\ TapCommits' = 0 /\ ~Toggled')
  /\ (ShortRelease' /\ okMultiCount = 1 /\ WindowOpen) =>
       (okMultiCount' = 2 /\ TapCommits' = 0 /\ ~Toggled')
  /\ (ShortRelease' /\ okMultiCount = 2 /\ WindowOpen) =>
       (okMultiCount' = 0 /\ TapCommits' = 0 /\ Toggled')
  /\ (okMultiCount \in {1, 2} /\ WindowOpen) =>
       /\ TapCommits' = 0 /\ ~ClearFired'
       /\ ~KeyEdge' => UNCHANGED <<currentSymbols, decodedText>>
  /\ (ShortRelease' /\ okMultiCount = 0 /\ ~KeyEdge') =>
       UNCHANGED <<currentSymbols, decodedText>>

C3_TripleTap == [][C3_Step]_vars

\* The third release has just started the playback of the pattern in progress.
C3_Witness ==
  /\ ShortRelease /\ okMultiCount = 0 /\ Printed("PLAY TOGGLE: ON")
  /\ playActive /\ currentSymbols # <<>>

\* --------------------------------------------------------------------- C4
\* A run of one or two taps whose window has run out at the next loop().
RunExpires == okMultiCount \in {1, 2} /\ ~WindowOpen

\* The pattern as the commit of this step finds it: the pattern before the
\* step and the symbols of the keys released in it.
PatternAtCommit ==
  currentSymbols \o (IF evDot' = -1 THEN <<".">> ELSE <<>>)
                 \o (IF evDash' = -1 THEN <<"-">> ELSE <<>>)

\* C4: the tick that finds a run of one or two taps expired commits the
\* letter exactly once, through the periodic check (count 0 afterwards) or
\* through the inline branch of a later release (which then counts as the
\* first tap of a new run); no other tick commits for a tap.  The commit
\* appends decodeMorse(pattern) to the text and empties the pattern, and
\* changes nothing when the pattern is empty.
C4_Step ==
  /\ RunExpires =>
       /\ TapCommits' = 1
       /\ \/ okMultiCount' = 0 /\ Printed("OK: COMMIT")'
          \/ okMultiCount' = 1 /\ ShortRelease' /\ Printed("OK: COMMIT (timeout)")'
  /\ ~RunExpires => TapCommits' = 0
  /\ (TapCommits' = 1 /\ evDot' # 1 /\ evDash' # 1) =>
       /\ currentSymbols' = <<>>
       /\ decodedText' = IF PatternAtCommit = <<>> THEN decodedText
                         ELSE Append(decodedText, decodeMorse(PatternAtCommit))

C4_OneCommit == [][C4_Step]_vars

\* A later release has just resolved an expired run through the inline
\* branch, committing a letter.
C4_Witness ==
  /\ Printed("OK: COMMIT (timeout)") /\ okMultiCount = 1
  /\ decodedText # <<>> /\ currentSymbols = <<>>

\* --------------------------------------------------------------------- C5
\* A tick without any edge keeps a pending count while the window is open
\* and resets it to 0 as soon as now - okMultiStartMs > OK_MULTI_WINDOW_MS.
C5_Step ==
  (okMultiCount > 0 /\ ~AnyEdge') =>
     okMultiCount' = IF WindowOpen THEN okMultiCount ELSE 0

\* C5: whenever a tap is pending and the ticks go on without any further
\* edge, the tap count returns to 0, at the first tick that finds the window
\* expired and not before.
C5_Resolved ==
  /\ [][C5_Step]_vars
  /\ (okMultiCount > 0 /\ ~AnyEdge) ~> (okMultiCount = 0 \/ AnyEdge)

\* The periodic check has just resolved a pending tap in a tick without
\* input.
C5_Witness ==
  okMultiCount = 0 /\ ~AnyEdge /\ Printed("OK: COMMIT") /\ ~btnOk.stable

\* --------------------------------------------------------------------- C6
\* C6: the clear fires in the first tick that finds Confirm stably pressed
\* for CLEAR_HOLD_MS with the latch open, at most once in a tick, and sets
\* the latch; while the latch is set and Confirm stays pressed it does not
\* fire again; it fires in no other tick.  A press restarts the hold time at
\* 0, which then grows with the ticks of the hold, and a released Confirm
\* leaves the latch open.
C6_Step ==
  /\ (btnOk'.stable /\ Held' >= CLEAR_HOLD_MS /\ ~okClearLatched) =>
       (ClearFired' /\ okClearLatched')
  /\ (okClearLatched /\ btnOk'.stable) => (~ClearFired' /\ okClearLatched')
  /\ ClearFired' =>
       /\ btnOk'.stable /\ Held' >= CLEAR_HOLD_MS /\ ~okClearLatched
       /\ Count("** CLEAR **")' = 1
  /\ evOk' = 1 => (Held' = 0 /\ ~okClearLatched)
  /\ (btnOk.stable /\ btnOk'.stable) =>
       Held' = Min(Held + TickMs, CLEAR_HOLD_MS)
  /\ ~btnOk'.stable => ~okClearLatched'

C6_ClearOnce == [][C6_Step]_vars

\* A later tick of a hold that has already cleared: nothing fires.
C6_Witness ==
  /\ btnOk.stable /\ okClearLatched /\ Held >= CLEAR_HOLD_MS
  /\ ~ClearFired /\ evOk = 0

\* --------------------------------------------------------------------- C7
\* C7: the tick in which the clear fires ends with the pattern and the text
\* empty, the truncation flag off, playback inactive and no tap pending; the
\* release of a Confirm press held for CLEAR_HOLD_MS or more counts no tap,
\* commits nothing and toggles nothing.
C7_Step ==
  /\ ClearFired' =>
       /\ currentSymbols' = <<>> /\ decodedText' = <<>>
       /\ ~textWasTrimmed' /\ ~playActive' /\ okMultiCount' = 0
  /\ (evOk' = -1 /\ Held' >= CLEAR_HOLD_MS) =>
       (okMultiCount' = 0 /\ TapCommits' = 0 /\ ~Toggled')

C7_ClearEffect == [][C7_Step]_vars

\* The clear has just fired in the tick that also appended a released Dot.
C7_Witness ==
  ClearFired /\ Printed("DOT") /\ currentSymbols = <<>> /\ okClearLatched

\* --------------------------------------------------------------------- C9
\* The current stage (or the loop gap) has run its time at the next loop().
StageExpires ==
  Epoch - Back(playStageStart, TickMs, StageHorizon(Globals)) >= playStageDur
\* A stage of the sequence, or the loop gap, began in the last loop().
StageStarted == playActive /\ playStageStart = Epoch
StageZeroStarted == StageStarted /\ playIndex = 0 /\ ~playInLoopGap

\* One tick of a playback that goes on: the compiled sequence stays as it
\* is; a stage that has not run its time stays; one that has is followed by
\* the next index, the last one by the loop gap with the output off, and the
\* loop gap by stage 0.
C9_Step ==
  /\ (playActive /\ playActive' /\ ~Printed("PLAY STOP (user input)")') =>
       /\ playSequence' = playSequence
       /\ ~StageExpires => UNCHANGED <<playIndex, playInLoopGap>>
       /\ (StageExpires /\ ~playInLoopGap /\ playIndex + 1 < Len(playSequence)) =>
            (playIndex' = playIndex + 1 /\ ~playInLoopGap' /\ StageStarted')
       /\ (StageExpires /\ ~playInLoopGap /\ playIndex + 1 >= Len(playSequence)) =>
            /\ playInLoopGap' /\ StageStarted' /\ ~buzzer'
            /\ playStageDur' = PLAY_LOOP_GAP_MS
       /\ (StageExpires /\ playInLoopGap) => StageZeroStarted'
  /\ (~playActive /\ playActive') =>
       (StageZeroStarted' /\ Len(playSequence') > 0)

\* C9: a playback that is not cancelled plays its stages in index order,
\* enters the loop gap after the last one and restarts at stage 0 of the
\* same sequence; if it is never cancelled, stage 0 starts again and again.
C9_Looping ==
  /\ [][C9_Step]_vars
  /\ []<>(~playActive \/ StageZeroStarted)

\* Stage 0, a tone, has just been started again after a loop gap.
C9_Witness ==
  StageZeroStarted /\ ~Printed("PLAY START") /\ buzzer

\* -------------------------------------------------------------------- C10
\* C10: while playback is active the compiled sequence is not empty, the
\* index is a valid one outside the loop gap, and the output is on exactly
\* when the sequencer is outside the loop gap on a tone stage, whatever the
\* keys do.
C10_OutputFollowsStage ==
  playActive =>
    /\ Len(playSequence) > 0
    /\ playIndex \in 0..Len(playSequence)
    /\ ~playInLoopGap => playIndex < Len(playSequence)
    /\ buzzer = IF playInLoopGap THEN FALSE
                ELSE StageTone(playSequence[playIndex + 1])

\* A gap stage is being played with Dot held: the output is off.
C10_Witness ==
  /\ playActive /\ ~playInLoopGap /\ btnDot.stable /\ ~buzzer
  /\ playSequence[playIndex + 1] = "|"

\* --------------------------------------------------------------------- C8
\* C8: updateButton flips the stable state, returning an edge, only when the
\* raw level has differed from the old stable state for DEBOUNCE_MS without
\* a break; and once the raw level is back at the stable state no poll
\* flips before the level has again differed for DEBOUNCE_MS.
C8_Step ==
  /\ (pinBtn'.stable # pinBtn.stable) => pinDiffMs >= DEBOUNCE_MS
  /\ (pinEv' # pinEv /\ pinEv' # 0) => pinDiffMs >= DEBOUNCE_MS

C8_Debounced == [][C8_Step]_vars

\* -------------------------------------------------------------------- C11
\* A Pressed edge cancelled the playback in this step.
Cancelled == playActive /\ Printed("PLAY STOP (user input)")'

\* C11 as stated: in the tick where a Pressed edge cancels an active
\* playback, the output is off at the end of the tick.
C11_OffAfterCancel == [][Cancelled => ~buzzer']_vars

\* C11, amended: the tick where a Pressed edge cancels an active playback
\* ends with playback inactive and the output following the keys: on exactly
\* when Dot or Dash is stably pressed (the sidetone of the key that
\* cancelled, or of a key held before), off otherwise.
C11_Step ==
  Cancelled =>
    /\ PressEdge' /\ ~playActive'
    /\ buzzer' = (btnDot'.stable \/ btnDash'.stable)

C11_SidetoneAfterCancel == [][C11_Step]_vars

\* A Dot press has just cancelled the playback and sounds its sidetone.
C11_Witness ==
  Printed("PLAY STOP (user input)") /\ evDot = 1 /\ ~playActive /\ buzzer

C12_Step ==
  playActive =>
    /\ PressEdge' => (~playActive' /\ Printed("PLAY STOP (user input)")')
    /\ ~PressEdge' =>
         /\ playActive'
         /\ currentSymbols' = PatternAtCommit

RECURSIVE Joined(_, _)
Joined(parts, gap) ==
  IF Len(parts) = 0 THEN <<>>
  ELSE IF Len(parts) = 1 THEN parts[1]
  ELSE parts[1] \o <<gap>> \o Joined(Tail(parts), gap)

\* A letter: one tone per symbol of its code, "i" between two symbols.
LetterStages(c) ==
  LET code == encodeMorse(c)
  IN Joined([k \in 1..Len(code) |-> <<code[k]>>], "i")

\* A word: its letters, "|" between two letters.
WordStages(word) ==
  Joined([k \in 1..Len(word) |-> LetterStages(word[k])], "|")

Supported(c) == c # " " /\ encodeMorse(c) # <<>>
SupportedWord(w) == Len(w) > 0 /\ \A k \in 1..Len(w) : Supported(w[k])

SOS_Stages ==
  << ".", "i", ".", "i", ".", "|", "-", "i", "-", "i", "-", "|",
     ".", "i", ".", "i", "." >>

\* The tick that starts a playback with no pattern in progress.
StartsFromText == Printed("PLAY START")' /\ currentSymbols' = <<>>

C13_Step ==
  StartsFromText =>
    /\ SupportedWord(decodedText') => playSequence' = WordStages(decodedText')
    /\ decodedText' = <<"S", "O", "S">> => playSequence' = SOS_Stages

\* C13: a text log of supported non-space characters only compiles to one
\* tone stage per symbol, exactly one "i" between two symbols of a letter,
\* exactly one "|" between two letters and no gap stage at either end; "SOS"
\* compiles to the 17 stages . i . i . | - i - i - | . i . i .
C13_WordCompiled == [][C13_Step]_vars

C13_Witness ==
  /\ Printed("PLAY START") /\ currentSymbols = <<>>
  /\ decodedText = <<"S", "O", "S">> /\ playSequence = SOS_Stages

\* ------------------------------------------------------------------- C14
\* The message without the characters that have no code.
Encodable(msg) == SelectSeq(msg, LAMBDA c : c = " " \/ encodeMorse(c) # <<>>)

\* Length of the run of non-space characters at the front of msg.
RunLen(msg) ==
  CHOOSE n \in 0..Len(msg) :
    /\ n = Len(msg) \/ msg[n + 1] = " "
    /\ \A k \in 1..n : msg[k] # " "

\* The words of msg: its maximal runs of non-space characters.
RECURSIVE WordsOf(_)
WordsOf(msg) ==
  IF Len(msg) = 0 THEN <<>>
  ELSE LET n == RunLen(msg)
       IN (IF n = 0 THEN <<>> ELSE << SubSeq(msg, 1, n) >>)
          \o WordsOf(SubSeq(msg, Max(n, 1) + 1, Len(msg)))

\* A message: the words of its encodable characters, "/" between two words.
MessageStages(msg) ==
  LET ws == WordsOf(Encodable(msg))
  IN Joined([k \in 1..Len(ws) |-> WordStages(ws[k])], "/")

IsGap(c) == c \in {"i", "|", "/"}

NoAdjacentGaps(seq) ==
  \A k \in 1..(Len(seq) - 1) : ~(IsGap(seq[k]) /\ IsGap(seq[k + 1]))

NoOuterGap(seq) ==
  Len(seq) > 0 => (~IsGap(seq[1]) /\ ~IsGap(seq[Len(seq)]))

C14_Step ==
  StartsFromText =>
    /\ playSequence' = MessageStages(decodedText')
    /\ NoAdjacentGaps(playSequence')
    /\ NoOuterGap(playSequence')

StartCalled == Printed("PLAY START")' \/ Printed("PLAY: NO SEQUENCE")'

\* A pattern: one tone per symbol, "i" between two symbols.
SymbolStages(pat) == Joined([k \in 1..Len(pat) |-> <<pat[k]>>], "i")

C15_Step ==
  /\ (StartCalled /\ currentSymbols' # <<>>) =>
       playSequence' = SymbolStages(currentSymbols')
  /\ (StartCalled /\ currentSymbols' = <<>>) =>
       playSequence' = buildStagesFromText(TrimTrailingSpaces(decodedText'))
  /\ (playActive /\ playActive') => playSequence' = playSequence

\* C15: a playback started with a pattern in progress plays that pattern's
\* stages only, whatever the text log holds; with no pattern it plays the
\* text log compiled without its trailing spaces; the sequence chosen at the
\* start stays as it is while the playback is active, also when the pattern
\* changes.
C15_PatternFirst == [][C15_Step]_vars

C15_Witness ==
  /\ playActive /\ ~Printed("PLAY START") /\ evDot = -1
  /\ decodedText = <<"S", " ">>
  /\ Len(currentSymbols) = 2 /\ playSequence = <<".">>

\* ------------------------------------------------------------------- C16
\* startPlayback found nothing to compile.
StartFailed == Printed("PLAY: NO SEQUENCE")'

C16_Step ==
  /\ StartFailed =>
       /\ ~playActive /\ ~playActive'
       /\ ~Printed("PLAY START")' /\ ~Printed("PLAY TOGGLE: ON")'
       /\ buzzer' = (btnDot'.stable \/ btnDash'.stable)
       /\ ~KeyEdge' => buzzer' = buzzer
       /\ currentSymbols' = currentSymbols
       /\ decodedText' = decodedText
       /\ okMultiCount' = 0
  /\ (StartCalled /\ playSequence' = <<>>) => StartFailed

\* C16: a triple tap that finds nothing to compile leaves playback inactive,
\* the output as the keys have it (as it was, unless Dot or Dash changed in
\* that tick), the pattern and the text log as they were, and the tap count
\* at 0.
C16_FailedStart == [][C16_Step]_vars

C16_Witness ==
  /\ Printed("PLAY: NO SEQUENCE") /\ decodedText = <<"#", " ", "#">>
  /\ btnDot.stable /\ buzzer /\ okMultiCount = 0 /\ ~playActive

\* ------------------------------------------------------------------- C17
\* Units of the stage a playback is in.
StageUnits(inLoopGap, c) ==
  IF inLoopGap THEN 3
  ELSE CASE c = "." -> 1
         [] c = "-" -> 3
         [] c = "i" -> 1
         [] c = "|" -> 3
         [] c = "/" -> 7

C17_Step ==
  /\ playActive' =>
       playStageDur' =
         UNIT_MS * StageUnits(playInLoopGap',
                              IF playInLoopGap' THEN ""
                              ELSE playSequence'[playIndex' + 1])
  /\ (playActive /\ playActive' /\ ~Printed("PLAY STOP (user input)")') =>
       (StageStarted' <=> StageExpires)

StillPlaying == playActive /\ ~PressEdge'

C18_Step ==
  StillPlaying =>
    /\ ~Printed("DOT")' /\ ~Printed("DASH")'
    /\ TapCommits' = 0
    /\ ~Printed("GAP: WORD (auto)")' /\ ~Printed("GAP: LETTER (auto)")'
    /\ ~ClearFired'
    /\ currentSymbols' = currentSymbols
    /\ decodedText' = decodedText

\* C18: in every tick in which playback is still active after the
\* cancellation check no symbol is appended to the pattern, no letter or
\* space is committed and no clear happens: the pattern and the text log are
\* unchanged for as long as playback is active.
C18_InputExcluded == [][C18_Step]_vars

\* ------------------------------------------------------------------- C19
\* loop() accepted, in this step, a Pressed edge of Dot or Dash with both of
\* them stably released before.
KeyedAfterSilence ==
  ~btnDot.stable /\ ~btnDash.stable /\ (evDot' = 1 \/ evDash' = 1)

\* The silence that press ends.
SilenceAtPress == Min(silenceMs + TickMs, WORD_GAP_MS)

\* The pattern in progress as a letter of the text log.
LetterOf(pat) == IF Len(pat) = 0 THEN <<>> ELSE << decodeMorse(pat) >>

\* One space after the text, none after an empty text or after a space.
Spaced(text) ==
  IF Len(text) = 0 \/ text[Len(text)] = " " THEN text ELSE Append(text, " ")

\* The step is free of a tap commit and of a clear, which write the pattern
\* and the text log as well.
C19_Step ==
  (KeyedAfterSilence /\ TapCommits' = 0 /\ ~ClearFired') =>
    /\ SilenceAtPress >= WORD_GAP_MS =>
         /\ decodedText' = Spaced(decodedText \o LetterOf(currentSymbols))
         /\ currentSymbols' = <<>>
    /\ (SilenceAtPress >= LETTER_GAP_MS /\ SilenceAtPress < WORD_GAP_MS) =>
         /\ decodedText' = decodedText \o LetterOf(currentSymbols)
         /\ currentSymbols' = <<>>
    /\ SilenceAtPress < LETTER_GAP_MS =>
         /\ decodedText' = decodedText
         /\ currentSymbols' = currentSymbols

\* C19: a Dot or Dash press accepted after both keys have been stably
\* released for at least LETTER_GAP_MS commits the pattern in progress as a
\* letter in that tick, before the new symbol is appended; after at least
\* WORD_GAP_MS one space follows the letter, none on an empty log or after a
\* space; after a shorter silence nothing is committed.
C19_AutoCommit == [][C19_Step]_vars

\* ------------------------------------------------------------------- C20
NoDoubleSpace(text) ==
  \A k \in 1..(Len(text) - 1) : ~(text[k] = " " /\ text[k + 1] = " ")

\* C20: pushSpaceIfNeeded called twice in a row leaves the text log that one
\* call leaves; it appends nothing to an empty log; and whatever commits,
\* spaces and clears came before, the log holds no two adjacent spaces.
C20_SpaceOnce ==
  \E once \in {pushSpaceIfNeeded(Globals)} :
    /\ pushSpaceIfNeeded(once) = once
    /\ Len(decodedText) = 0 => Len(once.decodedText) = 0
    /\ once.decodedText \in {decodedText, Append(decodedText, " ")}
    /\ NoDoubleSpace(decodedText)
    /\ NoDoubleSpace(once.decodedText)

\* A space was appended after each of two letters.
C20_Witness ==
  /\ Len(decodedText) = 4
  /\ decodedText[2] = " " /\ decodedText[4] = " "
  /\ decodedText[1] # " " /\ decodedText[3] # " "

\* ------------------------------------------------------------------- C21
\* The last n characters of a text, all of it when it is shorter.
LastChars(text, n) == SubSeq(text, Max(Len(text) - n, 0) + 1, Len(text))

C21_Capped ==
  /\ Len(decodedText) <= MAX_TEXT_LEN
  /\ decodedText = LastChars(appended, MAX_TEXT_LEN)
  /\ textWasTrimmed <=> Len(appended) > MAX_TEXT_LEN

C21_Step == (textWasTrimmed /\ ~textWasTrimmed') => ClearFired'

\* C21: the text log never holds more than MAX_TEXT_LEN characters; it is
\* the most recent MAX_TEXT_LEN characters of what was appended since the
\* last clear; textWasTrimmed is true exactly when a character has been
\* dropped since the last clear, and only a clear resets it.
C21_TextCap == []C21_Capped /\ [][C21_Step]_vars

\* MaxOver characters have been dropped from a full log.
C21_Witness ==
  /\ textWasTrimmed /\ Len(decodedText) = MAX_TEXT_LEN
  /\ Len(appended) = MAX_TEXT_LEN + MaxOver
  /\ decodedText[2] # appended[2]

\* ------------------------------------------------------------------- C22
\* The tone stages of a sequence: the symbols that were encoded.
Tones(seq) == SelectSeq(seq, StageTone)

\* The pattern is in the table.
InTable(pat) == \E i \in 1..MORSE_TABLE_LEN : MORSE_TABLE[i].pattern = pat

\* A playback of a log of one character c is started: encodeMorse(c) is
\* played, and decodes to the upper case of c; outside the supported set
\* there is no code and nothing to play.
C22_Encoded ==
  (StartCalled /\ currentSymbols' = <<>> /\ Len(decodedText') = 1) =>
    \E c \in {decodedText'[1]} :
      /\ Tones(playSequence') = encodeMorse(c)
      /\ c \in TableChars \cup LowerChars =>
           /\ Printed("PLAY START")'
           /\ decodeMorse(Tones(playSequence')) = ToUpper(c)
      /\ c \notin TableChars \cup LowerChars =>
           (StartFailed /\ encodeMorse(c) = <<>>)

\* A pattern is committed: the appended character is that of the table entry
\* with this pattern, the sentinel when there is none.
C22_Decoded ==
  Printed("LETTER")' =>
    /\ Len(decodedText') = Len(decodedText) + 1
    /\ \E d \in {decodedText'[Len(decodedText')]} :
         /\ InTable(currentSymbols) =>
              \E i \in 1..MORSE_TABLE_LEN :
                MORSE_TABLE[i] = [pattern |-> currentSymbols, ch |-> d]
         /\ ~InTable(currentSymbols) => d = "?"

TableDistinct ==
  \A i, j \in 1..MORSE_TABLE_LEN :
    MORSE_TABLE[i].pattern = MORSE_TABLE[j].pattern => i = j

\* C22: decodeMorse(encodeMorse(c)) is the upper case of c for every
\* character of the table and every lower-case letter; encodeMorse gives the
\* empty pattern for a character outside that set; decodeMorse gives '?' for
\* a pattern that is in no table entry; the patterns of the table are
\* pairwise distinct.
C22_RoundTrip == [][C22_Encoded /\ C22_Decoded /\ TableDistinct]_vars

\* The log "q" has been encoded and is playing - - . -
C22_Witness ==
  /\ Printed("PLAY START") /\ decodedText = << "q" >>
  /\ Tones(playSequence) = << "-", "-", ".", "-" >>

\* ------------------------------------------------------------------- C23
C23_Step == ~playActive' => (buzzer' <=> (btnDot'.stable \/ btnDash'.stable))

\* C23: at the end of every tick in which playback is not active the output
\* is on exactly when Dot or Dash is stably pressed; Confirm never sounds it.
C23_Sidetone == [][C23_Step]_vars

\* ------------------------------------------------------------------- C24
\* C24: at the end of every tick the tap count is 0, 1 or 2; while it is
\* above 0 the tap window is at most OK_MULTI_WINDOW_MS old; and it is 0
\* whenever playback is active.
C24_TapWindow ==
  /\ okMultiCount \in {0, 1, 2}
  /\ okMultiCount > 0 => Epoch - okMultiStartMs <= OK_MULTI_WINDOW_MS
  /\ playActive => okMultiCount = 0

\* Two taps are counted and the window is in its last tick.
C24_Witness ==
  /\ okMultiCount = 2
  /\ Epoch - okMultiStartMs + TickMs > OK_MULTI_WINDOW_MS
  /\ Epoch - okMultiStartMs <= OK_MULTI_WINDOW_MS

\* ------------------------------------------------------------------- C25
\* The Confirm release accepted in this step was counted as a tap.
TapCounted == okMultiCount' > 0 \/ Toggled'

\* A clear fired during the Confirm press that this step ends: the latch is
\* set by the clear and stays set while Confirm is pressed.
ClearedInPress == okClearLatched

C25_Step ==
  evOk' = -1 =>
    \/ Held' < CLEAR_HOLD_MS /\ TapCounted
    \/ Held' >= CLEAR_HOLD_MS /\ ClearedInPress

\* C25: at every Released edge of Confirm either the press lasted less than
\* CLEAR_HOLD_MS and the release is counted as a tap, or it lasted at least
\* CLEAR_HOLD_MS and a clear was performed during it.
C25_Classified == [][C25_Step]_vars

\* ------------------------------------------------------------------- C26
\* A step that resolves a single or double tap as a commit and appends a
\* letter, with no Dot or Dash press in it (which could commit on its own,
\* see C19).
C26_Step ==
  (TapCommits' = 1 /\ Printed("LETTER")' /\ evDot' # 1 /\ evDash' # 1) =>
    /\ Len(tapPattern) > 0
    /\ decodedText' = Append(decodedText, decodeMorse(tapPattern))

\* C26: the commit of a single or double tap appends the decoding of the
\* pattern as it stood at the Confirm release that opened the tap window;
\* symbols released while the window is open are not part of that letter.
C26_TappedLetter == [][C26_Step]_vars

\* ------------------------------------------------------------------- C27
C27_Step ==
  Cancelled =>
    /\ currentSymbols' = currentSymbols
    /\ decodedText' = decodedText
    /\ ~Printed("LETTER")'

\* C27: in the tick where a Pressed edge stops an active playback the
\* pattern in progress and the text log end as they began: the cancelling
\* press commits no letter and inserts no space.
C27_CancelKeepsMessage == [][C27_Step]_vars

\* ------------------------------------------------------------------- C28
\* Every character of the log is a space or has a code, and a log that is
\* not empty holds a character that is not a space.
C28_Playable ==
  /\ \A k \in 1..Len(decodedText) :
       decodedText[k] = " " \/ encodeMorse(decodedText[k]) # <<>>
  /\ Len(decodedText) > 0 => \E k \in 1..Len(decodedText) : decodedText[k] # " "

\* startPlayback fails exactly when nothing is keyed; started from the log,
\* it plays the code of every character that is not a space.
C28_Step ==
  /\ StartCalled =>
       (StartFailed <=> (currentSymbols' = <<>> /\ decodedText' = <<>>))
  /\ StartsFromText =>
       \E letters \in {SelectSeq(decodedText', LAMBDA c : c # " ")} :
         /\ Len(WordsOf(decodedText')) >= 1
         /\ Tones(playSequence') = Tones(WordStages(letters))

\* C28: every character of a reachable text log is a space or has a code
\* (the sentinel '?' has one) and the log is never made of spaces only: a
\* triple tap with playback inactive fails to start exactly when the pattern
\* and the log are both empty, and the compilation skips no character.
C28_StartFailsOnlyEmpty == []C28_Playable /\ [][C28_Step]_vars

\* A log with the sentinel in it is playing.
C28_Witness ==
  /\ Printed("PLAY START") /\ currentSymbols = <<>>
  /\ decodedText = << "?", " ", "E" >>

=========================================================================
